---- MODULE Spec2Model ----
(***************************************************************************)
(* Oulu Hotels Dashboard (src/app.py): one run of the Streamlit script.    *)
(*                                                                         *)
(*   load_data -> data.empty guard -> sidebar widgets -> filters ->        *)
(*   key metrics -> visualizations (or the "no data" warning)              *)
(*                                                                         *)
(* Units.  Decimal columns (price, review_score, distance) and the means   *)
(* rounded to 2 decimals are integers counting hundredths; a percentage is *)
(* an integer counting hundredths of a percent (100.00 % = 10000).  The    *)
(* un-rounded product avg_price * (occ_rate / 100) of the RevPAR series is *)
(* an integer counting millionths.  A date is the day of the year 2025.    *)
(* NaN / NaT / a missing name are the sentinels NaN, NaT, NoName; every    *)
(* comparison with NaN or NaT is false, as in pandas.                      *)
(***************************************************************************)
EXTENDS Integers, Sequences, FiniteSets, TLC

VARIABLES
    files,            \* glob('csv_files/*.csv') with each file's content
    i,                \* position of the for loop of load_data
    dfs,              \* frames read so far (load_data)
    errors,           \* files reported with st.error
    data,             \* the base table
    pc,               \* position of the script
    shown,            \* what the page shows: nothing yet, no_data, charts, warning
    selected_hotels, selected_nights, selected_persons, price_range, date_range,
    filtered_data,
    avg_review_score, adr, occupancy_rate, revpar,
    price_by_date, revpar_data, occupancy_data, weekday_data,
    fn_arg, fn_out    \* argument and results of the metric helpers called alone

vars == <<files, i, dfs, errors, data, pc, shown,
          selected_hotels, selected_nights, selected_persons, price_range, date_range,
          filtered_data, avg_review_score, adr, occupancy_rate, revpar,
          price_by_date, revpar_data, occupancy_data, weekday_data, fn_arg, fn_out>>

(***************************** bounds **************************************)
MaxRows == 2       \* rows in the two snapshot files together
MaxFiles == 2      \* files in the loader inputs
MaxSubset == 2    \* rows of a subset handed to a metric helper alone

(***************************** values **************************************)
NaN == -1          \* pandas NaN of a numeric column
NaT == -1          \* pandas NaT of price_date_dt
BadText == -2      \* a cell that is not a number
NoName == "<NA>"   \* a missing name cell

RECURSIVE SumSeq(_)
SumSeq(s) == IF s = <<>> THEN 0 ELSE Head(s) + SumSeq(Tail(s))

RECURSIVE Concat(_)
Concat(ss) == IF ss = <<>> THEN <<>> ELSE Head(ss) \o Concat(Tail(ss))

Range(s) == {s[k] : k \in DOMAIN s}

Column(df, c) == [k \in DOMAIN df |-> df[k][c]]

\* round(x, 2) of x = n / d hundredths: round half to even
RoundDiv(n, d) ==
    LET q == n \div d
        r == n % d
    IN  IF 2 * r < d THEN q
        ELSE IF 2 * r > d THEN q + 1
        ELSE IF q % 2 = 0 THEN q ELSE q + 1

\* pandas comparisons: false when either side is NaN / NaT
Ge(a, b) == a # NaN /\ b # NaN /\ a >= b
Le(a, b) == a # NaN /\ b # NaN /\ a <= b

(***************************** loader **************************************)
Contains(sub, s) ==
    \E k \in 1..(Len(s) - Len(sub) + 1) : SubSeq(s, k, k + Len(sub) - 1) = sub

basename(path) ==
    LET slashes == {k \in DOMAIN path : path[k] = "/"}
        last == IF slashes = {} THEN 0
                ELSE CHOOSE k \in slashes : \A j \in slashes : j <= k
    IN  SubSeq(path, last + 1, Len(path))

\* mutant: 'Eve' is looked for before 'Mor'
scrape_time_eve_first(filename) ==
    IF Contains(<<"E", "v", "e">>, basename(filename)) THEN "Evening"
    ELSE IF Contains(<<"M", "o", "r">>, basename(filename)) THEN "Morning"
    ELSE "Unknown"

get_scrape_time(filename) ==
    IF Contains(<<"M", "o", "r">>, basename(filename)) THEN "Morning"
    ELSE IF Contains(<<"E", "v", "e">>, basename(filename)) THEN "Evening"
    ELSE "Unknown"

to_numeric(v) == IF v >= 0 THEN v ELSE NaN

DaysBefore(m) ==
    CASE m = 1 -> 0 [] m = 2 -> 31 [] m = 3 -> 59 [] m = 4 -> 90 [] m = 5 -> 120
      [] m = 6 -> 151 [] m = 7 -> 181 [] m = 8 -> 212 [] m = 9 -> 243
      [] m = 10 -> 273 [] m = 11 -> 304 [] m = 12 -> 334

DaysIn(m) == IF m = 2 THEN 28 ELSE IF m \in {4, 6, 9, 11} THEN 30 ELSE 31

\* day first: <<day, month>> of 2025; anything that is no calendar day is NaT
to_datetime(raw) ==
    IF Len(raw) = 2 /\ raw[2] \in 1..12 /\ raw[1] \in 1..DaysIn(raw[2])
    THEN DaysBefore(raw[2]) + raw[1]
    ELSE NaT

\* 1 January 2025 is a Wednesday
day_name(d) ==
    IF d = NaT THEN NoName
    ELSE <<"Tuesday", "Wednesday", "Thursday", "Friday", "Saturday", "Sunday",
           "Monday">>[(d % 7) + 1]

read_csv(file) ==
    [k \in DOMAIN file.rows |->
        [name |-> file.rows[k].name, nights |-> file.rows[k].nights,
         persons |-> file.rows[k].persons, price |-> file.rows[k].price,
         review_score |-> file.rows[k].review_score,
         distance |-> file.rows[k].distance,
         price_date |-> file.rows[k].price_date,
         scrape_time |-> get_scrape_time(file.path)]]

Normalize(r) ==
    [name |-> r.name, nights |-> r.nights, persons |-> r.persons,
     price |-> to_numeric(r.price),
     review_score |-> to_numeric(r.review_score),
     distance |-> to_numeric(r.distance),
     price_date |-> r.price_date,
     scrape_time |-> r.scrape_time,
     price_date_dt |-> to_datetime(r.price_date),
     weekday |-> day_name(to_datetime(r.price_date))]

combined_data(frames) ==
    LET all == Concat(frames) IN [k \in DOMAIN all |-> Normalize(all[k])]

(***************************** sidebar *************************************)
SliderStep == 100      \* step=1.0 of the price slider, in hundredths

SetMin(S) == CHOOSE x \in S : \A y \in S : x <= y
SetMax(S) == CHOOSE x \in S : \A y \in S : y <= x

hotel_names(d) == Range(Column(d, "name")) \ {NoName}
nights_options(d) == Range(Column(d, "nights"))
persons_options(d) == Range(Column(d, "persons"))
price_data(d) == Range(Column(d, "price")) \ {NaN}
date_data(d) == Range(Column(d, "price_date_dt")) \ {NaT}

\* st.selectbox: one of the options, None when there is none; index=0 of the
\* sorted options is the smallest
selectbox(options) == IF options = {} THEN {NaN} ELSE options
selectbox_default(options) == IF options = {} THEN NaN ELSE SetMin(options)

\* value=(min_price, max_price) of the slider, or the fallback (0, 1000)
default_price_range(d) ==
    IF price_data(d) # {} THEN <<SetMin(price_data(d)), SetMax(price_data(d))>>
    ELSE <<0, 100000>>

\* what st.slider can return: a pair of positions lo <= hi between the bounds
slider_values(d) ==
    IF price_data(d) # {}
    THEN LET lo == SetMin(price_data(d))
             hi == SetMax(price_data(d))
             pos == {lo + k * SliderStep : k \in 0..((hi - lo) \div SliderStep)} \cup {hi}
         IN  {p \in pos \X pos : p[1] <= p[2]}
    ELSE {<<0, 100000>>}

\* value=(min, max) of the date input; the bounds are NaT when no date parsed
default_date_range(d) ==
    IF date_data(d) # {} THEN <<SetMin(date_data(d)), SetMax(date_data(d))>>
    ELSE <<NaT, NaT>>

\* what st.date_input can return for a range: 0, 1 or 2 dates between the bounds
date_input_values(d) ==
    LET days == IF date_data(d) # {}
                THEN SetMin(date_data(d))..SetMax(date_data(d)) ELSE {NaT}
    IN  {<<>>} \cup {<<a>> : a \in days}
        \cup {p \in days \X days : p[1] <= p[2]}

(***************************** filters *************************************)
filter_hotels(df, hotels) ==
    IF hotels # {} THEN SelectSeq(df, LAMBDA r : r.name \in hotels) ELSE df

\* mutant: the persons selection is not applied
filter_nights_only(df, n, p) ==
    SelectSeq(df, LAMBDA r : r.nights = n)

filter_nights_persons(df, n, p) ==
    SelectSeq(df, LAMBDA r : r.nights = n /\ r.persons = p)

\* mutant: rows without a price pass the price filter
filter_price_keep_nan(df, range) ==
    SelectSeq(df, LAMBDA r : r.price = NaN
                             \/ (Ge(r.price, range[1]) /\ Le(r.price, range[2])))

filter_price(df, range) ==
    SelectSeq(df, LAMBDA r : Ge(r.price, range[1]) /\ Le(r.price, range[2]))

\* mutant: the end of the date range is exclusive
filter_date_exclusive(df, range) ==
    IF Len(range) = 2
    THEN SelectSeq(df, LAMBDA r : Ge(r.price_date_dt, range[1])
                                  /\ r.price_date_dt < range[2])
    ELSE df

filter_date(df, range) ==
    IF Len(range) = 2
    THEN SelectSeq(df, LAMBDA r : Ge(r.price_date_dt, range[1])
                                  /\ Le(r.price_date_dt, range[2]))
    ELSE df

apply_filters(df, hotels, n, p, prange, drange) ==
    filter_date(filter_price(filter_nights_persons(filter_hotels(df, hotels), n, p),
                             prange), drange)

(***************************** metrics *************************************)
dropna(series) == SelectSeq(series, LAMBDA v : v # NaN)

\* mutant: the mean divides by the length of the series, nulls included
safe_mean_all_rows(series) ==
    LET clean_series == dropna(series)
    IN  IF clean_series # <<>>
        THEN RoundDiv(SumSeq(clean_series), Len(series))
        ELSE 0

\* mutant: no zero default, the mean of nothing is NaN
safe_mean_unguarded(series) ==
    LET clean_series == dropna(series)
    IN  IF clean_series # <<>>
        THEN RoundDiv(SumSeq(clean_series), Len(clean_series))
        ELSE NaN

safe_mean(series) ==
    LET clean_series == dropna(series)
    IN  IF clean_series # <<>>
        THEN RoundDiv(SumSeq(clean_series), Len(clean_series))
        ELSE 0

nunique(series) == Cardinality(Range(series) \ {NoName})

\* mutant: counts the priced rows, not the distinct priced hotels
occupancy_counting_rows(df) ==
    IF df = <<>> THEN 0
    ELSE LET total_hotels == nunique(Column(df, "name"))
             hotels_with_prices == Len(SelectSeq(df, LAMBDA r : r.price # NaN))
         IN  IF total_hotels > 0
             THEN RoundDiv(hotels_with_prices * 10000, total_hotels)
             ELSE 0

\* mutant: returns the fraction, not the percentage
occupancy_as_fraction(df) ==
    IF df = <<>> THEN 0
    ELSE LET total_hotels == nunique(Column(df, "name"))
             hotels_with_prices ==
                 nunique(Column(SelectSeq(df, LAMBDA r : r.price # NaN), "name"))
         IN  IF total_hotels > 0
             THEN RoundDiv(hotels_with_prices * 100, total_hotels)
             ELSE 0

calculate_occupancy_rate(df) ==
    IF df = <<>> THEN 0
    ELSE LET total_hotels == nunique(Column(df, "name"))
             hotels_with_prices ==
                 nunique(Column(SelectSeq(df, LAMBDA r : r.price # NaN), "name"))
         IN  IF total_hotels > 0
             THEN RoundDiv(hotels_with_prices * 10000, total_hotels)
             ELSE 0

revpar_kpi(a, occ) == RoundDiv(a * occ, 10000)

(***************************** series **************************************)
RECURSIVE unique(_)
unique(s) ==
    IF s = <<>> THEN <<>>
    ELSE LET init == unique(SubSeq(s, 1, Len(s) - 1))
             last == s[Len(s)]
         IN  IF last \in Range(init) THEN init ELSE Append(init, last)

\* mutant: the scrape time is not part of the partition
subset_of_date(df, date, scrape_time) ==
    SelectSeq(df, LAMBDA r : date # NaT /\ r.price_date_dt = date)

\* filtered_data[(price_date_dt == date) & (scrape_time == scrape_time)]
subset_of(df, date, scrape_time) ==
    SelectSeq(df, LAMBDA r : date # NaT /\ r.price_date_dt = date
                             /\ r.scrape_time = scrape_time)

\* the (date, scrape_time) pairs in the order of the two nested for loops
loop_pairs(df) ==
    LET ds == unique(Column(df, "price_date_dt"))
        ts == unique(Column(df, "scrape_time"))
    IN  [k \in 1..(Len(ds) * Len(ts)) |->
            <<ds[((k - 1) \div Len(ts)) + 1], ts[((k - 1) % Len(ts)) + 1]>>]

nonempty_pairs(df) ==
    SelectSeq(loop_pairs(df), LAMBDA p : subset_of(df, p[1], p[2]) # <<>>)

revpar_value(avg_price, occ_rate) == avg_price * occ_rate

revpar_series(df) ==
    LET ps == nonempty_pairs(df)
    IN  [k \in DOMAIN ps |->
            LET subset == subset_of(df, ps[k][1], ps[k][2])
            IN  [price_date_dt |-> ps[k][1], scrape_time |-> ps[k][2],
                 revpar |-> revpar_value(safe_mean(Column(subset, "price")),
                                         calculate_occupancy_rate(subset))]]

occupancy_series(df) ==
    LET ps == nonempty_pairs(df)
    IN  [k \in DOMAIN ps |->
            LET subset == subset_of(df, ps[k][1], ps[k][2])
            IN  [price_date_dt |-> ps[k][1], scrape_time |-> ps[k][2],
                 occupancy_rate |-> calculate_occupancy_rate(subset)]]

\* groupby([key, 'scrape_time'])['price'].mean(): one entry per group whose key
\* is not null; the mean is left un-rounded, kept as sum and count of the
\* non-null prices (count 0: the mean is NaN)
groupby_mean(df, key, null) ==
    {[key |-> g[1], scrape_time |-> g[2],
      price_sum |-> SumSeq(dropna(Column(
                        SelectSeq(df, LAMBDA r : r[key] = g[1] /\ r.scrape_time = g[2]),
                        "price"))),
      price_count |-> Len(dropna(Column(
                        SelectSeq(df, LAMBDA r : r[key] = g[1] /\ r.scrape_time = g[2]),
                        "price")))] :
     g \in {<<df[k][key], df[k].scrape_time>> : k \in {j \in DOMAIN df : df[j][key] # null}}}

\* mutant: the guard tests for a missing table, not for an empty one
is_none(df) == FALSE

empty(df) == Len(df) = 0

(***************************** inputs **************************************)
SeqsUpTo(S, n) == UNION {[1..k -> S] : k \in 0..n}

Dir == <<"c", "s", "v", "_", "f", "i", "l", "e", "s", "/">>
Ext == <<".", "c", "s", "v">>
Path(stem) == Dir \o stem \o Ext

MorPath == Path(<<"h", "_", "M", "o", "r">>)
EvePath == Path(<<"h", "_", "E", "v", "e">>)
Paths == {MorPath, EvePath,
          Path(<<"E", "v", "e", "M", "o", "r">>),
          Path(<<"m", "o", "r", "n">>)}

Names == {"A", "B", NoName}

\* 1 March, 2 March, and 31 February, which is no date
RefRow == [name |-> "A", nights |-> 1, persons |-> 1, price |-> 150,
           review_score |-> 850, distance |-> 120, price_date |-> <<1, 3>>]

Varied(r) ==
    Cardinality({f \in DOMAIN RefRow : r[f] # RefRow[f]})

\* the rows that differ from RefRow in at most n fields
RawRows(n) ==
    {r \in [name : Names, nights : {1, 2}, persons : {1, 2},
            price : {150, 250, BadText}, review_score : {850}, distance : {120},
            price_date : {<<1, 3>>, <<2, 3>>, <<31, 2>>}] : Varied(r) <= n}

Snapshots(morning, evening) ==
    <<[path |-> MorPath, ok |-> TRUE, rows |-> morning],
      [path |-> EvePath, ok |-> TRUE, rows |-> evening]>>

\* a morning and an evening snapshot of at most MaxRows rows together, each
\* row one field away from RefRow
SnapshotInputs ==
    {Snapshots(p[1], p[2]) :
     p \in {q \in SeqsUpTo(RawRows(1), MaxRows) \X SeqsUpTo(RawRows(1), MaxRows) :
            Len(q[1]) + Len(q[2]) <= MaxRows}}

\* a morning and an evening snapshot of at most one row each, each row two
\* fields away from RefRow
PairInputs ==
    {Snapshots(p[1], p[2]) :
     p \in SeqsUpTo(RawRows(2), 1) \X SeqsUpTo(RawRows(2), 1)}

\* any files under any of the names, readable or not
LoaderInputs ==
    SeqsUpTo([path : Paths, ok : BOOLEAN,
              rows : {<<>>, <<RefRow>>, <<[RefRow EXCEPT !.name = "B"], RefRow>>}],
             MaxFiles)

Inputs == SnapshotInputs \cup PairInputs \cup LoaderInputs

\* row subsets for the metric helpers called alone
MetricRows ==
    [name : Names, nights : {1}, persons : {1}, price : {NaN, 0, 275},
     review_score : {NaN, 0, 850}, distance : {120}, price_date : {<<1, 3>>},
     scrape_time : {"Morning"}, price_date_dt : {60}, weekday : {"Saturday"}]

(***************************** the run *************************************)
Init ==
    /\ files \in Inputs
    /\ i = 1
    /\ dfs = <<>>
    /\ errors = <<>>
    /\ data = <<>>
    /\ pc = "load"
    /\ shown = "nothing"
    /\ selected_hotels = {}
    /\ selected_nights = NaN
    /\ selected_persons = NaN
    /\ price_range = <<>>
    /\ date_range = <<>>
    /\ filtered_data = <<>>
    /\ avg_review_score = NaN
    /\ adr = NaN
    /\ occupancy_rate = NaN
    /\ revpar = NaN
    /\ price_by_date = {}
    /\ revpar_data = <<>>
    /\ occupancy_data = <<>>
    /\ weekday_data = {}
    /\ fn_arg = <<>>
    /\ fn_out = [review |-> NaN, price |-> NaN, occupancy |-> NaN]

sidebar_vars == <<selected_hotels, selected_nights, selected_persons, price_range,
                  date_range>>
metric_vars == <<avg_review_score, adr, occupancy_rate, revpar>>
chart_vars == <<price_by_date, revpar_data, occupancy_data, weekday_data>>
load_vars == <<files, i, dfs, errors, data>>
fn_vars == <<fn_arg, fn_out>>

\* load_data, one pass of the for loop: the file parses
ReadFile ==
    /\ pc = "load" /\ i <= Len(files)
    /\ files[i].ok
    /\ dfs' = Append(dfs, read_csv(files[i]))
    /\ i' = i + 1
    /\ UNCHANGED <<files, errors, data, pc, shown, sidebar_vars, filtered_data,
                   metric_vars, chart_vars, fn_vars>>

\* load_data, one pass of the for loop: pd.read_csv raises
ReadFails ==
    /\ pc = "load" /\ i <= Len(files)
    /\ ~files[i].ok
    /\ errors' = Append(errors, files[i].path)
    /\ i' = i + 1
    /\ UNCHANGED <<files, dfs, data, pc, shown, sidebar_vars, filtered_data,
                   metric_vars, chart_vars, fn_vars>>

\* load_data after the loop, and data = load_data()
Combine ==
    /\ pc = "load" /\ i > Len(files)
    /\ data' = IF dfs # <<>> THEN combined_data(dfs) ELSE <<>>
    /\ pc' = "loaded"
    /\ UNCHANGED <<files, i, dfs, errors, shown, sidebar_vars, filtered_data,
                   metric_vars, chart_vars, fn_vars>>

\* if data.empty: st.error(...); st.stop()
NoData ==
    /\ pc = "loaded" /\ empty(data)
    /\ shown' = "no_data"
    /\ pc' = "stopped"
    /\ UNCHANGED <<load_vars, sidebar_vars, filtered_data, metric_vars, chart_vars,
                   fn_vars>>

\* the five widgets of the sidebar, set by the user
Sidebar ==
    /\ pc = "loaded" /\ ~empty(data)
    /\ selected_hotels' \in SUBSET hotel_names(data)
    /\ selected_nights' \in selectbox(nights_options(data))
    /\ selected_persons' \in selectbox(persons_options(data))
    /\ price_range' \in slider_values(data)
    /\ date_range' \in date_input_values(data)
    /\ pc' = "filters"
    /\ UNCHANGED <<load_vars, shown, filtered_data, metric_vars, chart_vars, fn_vars>>

ApplyFilters ==
    /\ pc = "filters"
    /\ filtered_data' = apply_filters(data, selected_hotels, selected_nights,
                                      selected_persons, price_range, date_range)
    /\ pc' = "metrics"
    /\ UNCHANGED <<load_vars, shown, sidebar_vars, metric_vars, chart_vars, fn_vars>>

KeyMetrics ==
    /\ pc = "metrics"
    /\ avg_review_score' = safe_mean(Column(filtered_data, "review_score"))
    /\ adr' = safe_mean(Column(filtered_data, "price"))
    /\ occupancy_rate' = calculate_occupancy_rate(filtered_data)
    /\ revpar' = revpar_kpi(adr', occupancy_rate')
    /\ pc' = "visualize"
    /\ UNCHANGED <<load_vars, shown, sidebar_vars, filtered_data, chart_vars, fn_vars>>

\* if not filtered_data.empty: the four charts and the data summary, whose
\* strftime raises on NaT when no row of the filtered table has a date
Visualizations ==
    /\ pc = "visualize" /\ ~empty(filtered_data)
    /\ price_by_date' = groupby_mean(filtered_data, "price_date_dt", NaT)
    /\ revpar_data' = revpar_series(filtered_data)
    /\ occupancy_data' = occupancy_series(filtered_data)
    /\ weekday_data' = groupby_mean(filtered_data, "weekday", NoName)
    /\ shown' = "charts"
    /\ pc' = IF date_data(filtered_data) = {} THEN "failed" ELSE "done"
    /\ UNCHANGED <<load_vars, sidebar_vars, filtered_data, metric_vars, fn_vars>>

\* else: st.warning(...)
Warning ==
    /\ pc = "visualize" /\ empty(filtered_data)
    /\ shown' = "warning"
    /\ pc' = "done"
    /\ UNCHANGED <<load_vars, sidebar_vars, filtered_data, metric_vars, chart_vars,
                   fn_vars>>

Next ==
    \/ ReadFile
    \/ ReadFails
    \/ Combine
    \/ NoData
    \/ Sidebar
    \/ ApplyFilters
    \/ KeyMetrics
    \/ Visualizations
    \/ Warning

Spec == Init /\ [][Next]_vars

(******************* the metric helpers called alone ***********************)
InitMetrics ==
    /\ files = <<>>
    /\ i = 1
    /\ dfs = <<>>
    /\ errors = <<>>
    /\ data = <<>>
    /\ pc = "call_safe_mean"
    /\ shown = "nothing"
    /\ selected_hotels = {}
    /\ selected_nights = NaN
    /\ selected_persons = NaN
    /\ price_range = <<>>
    /\ date_range = <<>>
    /\ filtered_data = <<>>
    /\ avg_review_score = NaN
    /\ adr = NaN
    /\ occupancy_rate = NaN
    /\ revpar = NaN
    /\ price_by_date = {}
    /\ revpar_data = <<>>
    /\ occupancy_data = <<>>
    /\ weekday_data = {}
    /\ fn_arg \in SeqsUpTo(MetricRows, MaxSubset)
    /\ fn_out = [review |-> NaN, price |-> NaN, occupancy |-> NaN]

CallSafeMean ==
    /\ pc = "call_safe_mean"
    /\ fn_out' = [fn_out EXCEPT !.review = safe_mean(Column(fn_arg, "review_score")),
                                !.price = safe_mean(Column(fn_arg, "price"))]
    /\ pc' = "call_occupancy"
    /\ UNCHANGED <<load_vars, shown, sidebar_vars, filtered_data, metric_vars,
                   chart_vars, fn_arg>>

CallOccupancy ==
    /\ pc = "call_occupancy"
    /\ fn_out' = [fn_out EXCEPT !.occupancy = calculate_occupancy_rate(fn_arg)]
    /\ pc' = "returned"
    /\ UNCHANGED <<load_vars, shown, sidebar_vars, filtered_data, metric_vars,
                   chart_vars, fn_arg>>

NextMetrics ==
    \/ CallSafeMean
    \/ CallOccupancy

SpecMetrics == InitMetrics /\ [][NextMetrics]_vars

(***************************** properties **********************************)
Filtered == pc \in {"metrics", "visualize", "done", "failed"}
Measured == pc \in {"visualize", "done", "failed"}
Rendered == pc \in {"done", "failed"}

Abs(x) == IF x < 0 THEN -x ELSE x

\* m is n / d rounded to the nearest integer, a tie going to the even one
Nearest(m, n, d) ==
    /\ 2 * Abs(n - m * d) <= d
    /\ 2 * Abs(n - m * d) = d => m % 2 = 0

HotelOk(r) == selected_hotels = {} \/ r.name \in selected_hotels
StayOk(r) == r.nights = selected_nights /\ r.persons = selected_persons
PriceOk(r) ==
    r.price # NaN /\ price_range[1] <= r.price /\ r.price <= price_range[2]
InDateRange(r) ==
    /\ r.price_date_dt # NaT
    /\ date_range[1] # NaT /\ date_range[2] # NaT
    /\ date_range[1] <= r.price_date_dt /\ r.price_date_dt <= date_range[2]

\* C1 as stated: the filtered table is exactly the rows of the base table that
\* satisfy the hotel, nights, persons, price and date predicates together, and
\* no row with a null price or a null price_date is ever in it.
C1_AllPredicatesAlways ==
    Filtered =>
        filtered_data = SelectSeq(data, LAMBDA r :
            /\ HotelOk(r) /\ StayOk(r) /\ PriceOk(r)
            /\ r.price_date_dt # NaT
            /\ Len(date_range) = 2 => InDateRange(r))

\* C1 amended: the filtered table is exactly the rows of the base table that
\* satisfy the hotel, nights, persons and price predicates and, when the date
\* input holds both a start and an end, the date predicate; with fewer than two
\* dates in the date input no date predicate applies.  No row with a null price
\* is ever in the filtered table.
C1_ActivePredicates ==
    Filtered =>
        /\ filtered_data = SelectSeq(data, LAMBDA r :
               /\ HotelOk(r) /\ StayOk(r) /\ PriceOk(r)
               /\ Len(date_range) = 2 => InDateRange(r))
        /\ \A k \in DOMAIN filtered_data : filtered_data[k].price # NaN

C1_Witness ==
    /\ pc = "metrics"
    /\ Len(date_range) = 2
    /\ selected_hotels # {}
    /\ filtered_data # <<>>
    /\ Len(filtered_data) < Len(data)
    /\ \E k \in DOMAIN data : data[k].price = NaN \/ data[k].price_date_dt = NaT

AtDefaults ==
    /\ selected_hotels = {}
    /\ selected_nights = selectbox_default(nights_options(data))
    /\ selected_persons = selectbox_default(persons_options(data))
    /\ price_range = default_price_range(data)
    /\ date_range = default_date_range(data)

\* C2 as stated: with every widget at its default the filtered table is the
\* whole base table.
C2_DefaultsKeepEverything ==
    (Filtered /\ AtDefaults) => filtered_data = data

\* C2 amended: with every widget at its default the filtered table is exactly
\* the rows of the base table whose nights is the smallest nights value, whose
\* persons is the smallest persons value, whose price is not null and whose
\* price_date is not null, each unchanged and in the order of the base table.
C2_DefaultsKeepDefaultStay ==
    (Filtered /\ AtDefaults) =>
        filtered_data = SelectSeq(data, LAMBDA r :
            /\ \A k \in DOMAIN data : r.nights <= data[k].nights
            /\ \A k \in DOMAIN data : r.persons <= data[k].persons
            /\ r.price # NaN
            /\ r.price_date_dt # NaT)

C2_Witness ==
    /\ pc = "metrics" /\ AtDefaults
    /\ filtered_data # <<>>
    /\ \E k \in DOMAIN data : data[k].persons # selected_persons

PricedHotels(df) ==
    {df[k].name : k \in {j \in DOMAIN df : df[j].name # NoName /\ df[j].price # NaN}}
AllHotels(df) == {df[k].name : k \in {j \in DOMAIN df : df[j].name # NoName}}

NonNull(df, c) == {k \in DOMAIN df : df[k][c] # NaN}

RECURSIVE SumOver(_, _, _)
SumOver(df, c, K) ==
    IF K = {} THEN 0
    ELSE LET k == CHOOSE x \in K : TRUE IN df[k][c] + SumOver(df, c, K \ {k})

IsRoundedMean(m, df, c) ==
    Nearest(m, SumOver(df, c, NonNull(df, c)), Cardinality(NonNull(df, c)))

\* C4 as stated: safe_mean over review_score and over price is 0 if and only if
\* every value of the column is null, and is otherwise the mean of the non-null
\* values rounded to 2 decimals.
C4_ZeroIffAllNull ==
    pc = "returned" =>
        \A c \in {"review_score", "price"} :
            LET m == IF c = "price" THEN fn_out.price ELSE fn_out.review
            IN  /\ m = 0 <=> NonNull(fn_arg, c) = {}
                /\ NonNull(fn_arg, c) # {} => IsRoundedMean(m, fn_arg, c)

\* C4 amended: safe_mean over review_score and over price is 0 if every value
\* of the column is null, and is otherwise the mean of the non-null values
\* rounded to 2 decimals, which is 0 as well when that mean rounds to 0.
C4_ZeroDefaultElseMean ==
    pc = "returned" =>
        \A c \in {"review_score", "price"} :
            LET m == IF c = "price" THEN fn_out.price ELSE fn_out.review
            IN  /\ NonNull(fn_arg, c) = {} => m = 0
                /\ NonNull(fn_arg, c) # {} => IsRoundedMean(m, fn_arg, c)

C4_Witness ==
    /\ pc = "returned"
    /\ fn_out.price = 138
    /\ \E k \in DOMAIN fn_arg : fn_arg[k].review_score = NaN
    /\ fn_out.review = 850

Partition(d, s) ==
    SelectSeq(filtered_data, LAMBDA r : r.price_date_dt = d /\ r.scrape_time = s)

\* C5: the RevPAR KPI, and the revpar of every entry of the per-date and
\* per-scrape-time series, is round(adr * occupancy_rate / 100, 2) for the
\* rounded adr and occupancy_rate of the same rows.
C5_RevparRounded ==
    /\ Measured => Nearest(revpar, adr * occupancy_rate, 10000)
    /\ (Rendered /\ shown = "charts") =>
          \A k \in DOMAIN revpar_data :
              LET e == revpar_data[k]
                  rows == Partition(e.price_date_dt, e.scrape_time)
              IN  /\ e.revpar % 10000 = 0
                  /\ Nearest(e.revpar \div 10000,
                             safe_mean(Column(rows, "price"))
                                 * calculate_occupancy_rate(rows),
                             10000)

C5_Witness ==
    /\ Rendered /\ shown = "charts"
    /\ revpar = 200
    /\ Len(revpar_data) = 2
    /\ revpar_data[1].revpar = 1500000
    /\ revpar_data[2].revpar = 2500000

Loaded == pc # "load"

RECURSIVE RowsBefore(_)
\* the rows that the readable files before file k contribute
RowsBefore(k) ==
    IF k <= 1 THEN 0
    ELSE RowsBefore(k - 1)
         + (IF files[k - 1].ok THEN Len(files[k - 1].rows) ELSE 0)

\* position after the last "/" of a path
NameStart(path) ==
    IF \E k \in DOMAIN path : path[k] = "/"
    THEN 1 + CHOOSE k \in DOMAIN path :
                 path[k] = "/" /\ \A j \in DOMAIN path : j > k => path[j] # "/"
    ELSE 1

HasIn(a, b, c, path) ==
    \E k \in NameStart(path)..(Len(path) - 2) :
        path[k] = a /\ path[k + 1] = b /\ path[k + 2] = c

TimeOfName(path) ==
    IF HasIn("M", "o", "r", path) THEN "Morning"
    ELSE IF HasIn("E", "v", "e", path) THEN "Evening"
    ELSE "Unknown"

\* C6: the base table holds exactly the rows of the files that parsed, in
\* order; a file that does not parse is reported, adds no row and does not
\* stop the later files; every row carries the scrape_time of its own file's
\* name ('Mor' before 'Eve', else Unknown).
C6_LoadedRows ==
    Loaded =>
        /\ Len(data) = RowsBefore(Len(files) + 1)
        /\ errors = SelectSeq([k \in DOMAIN files |-> IF files[k].ok THEN <<>>
                                                      ELSE files[k].path],
                              LAMBDA x : x # <<>>)
        /\ \A k \in DOMAIN files :
              files[k].ok =>
                  \A j \in DOMAIN files[k].rows :
                      LET raw == files[k].rows[j]
                          row == data[RowsBefore(k) + j]
                      IN  /\ row.name = raw.name
                          /\ row.nights = raw.nights
                          /\ row.persons = raw.persons
                          /\ row.price_date = raw.price_date
                          /\ row.price = IF raw.price = BadText THEN NaN ELSE raw.price
                          /\ row.scrape_time = TimeOfName(files[k].path)
        /\ \A k \in DOMAIN data :
              data[k].scrape_time \in {"Morning", "Evening", "Unknown"}

C6_Witness ==
    /\ pc = "loaded"
    /\ Len(files) = 2
    /\ ~files[1].ok /\ files[1].rows # <<>>
    /\ files[2].ok /\ Len(data) = 2
    /\ HasIn("M", "o", "r", files[2].path) /\ HasIn("E", "v", "e", files[2].path)
    /\ data[1].scrape_time = "Morning"
    /\ Len(errors) = 1

Untouched ==
    /\ selected_hotels = {} /\ selected_nights = NaN /\ selected_persons = NaN
    /\ price_range = <<>> /\ date_range = <<>>
    /\ filtered_data = <<>>
    /\ avg_review_score = NaN /\ adr = NaN /\ occupancy_rate = NaN /\ revpar = NaN
    /\ price_by_date = {} /\ revpar_data = <<>> /\ occupancy_data = <<>>
    /\ weekday_data = {}

\* C7: once an empty base table has been loaded the run shows "no data" and
\* stops; the sidebar, the filters, the KPIs and the series never happen.
C7_EmptyBaseTableStops ==
    (Loaded /\ data = <<>>) =>
        /\ pc \in {"loaded", "stopped"}
        /\ pc = "stopped" => shown = "no_data"
        /\ pc = "loaded" => shown = "nothing"
        /\ Untouched

C7_Witness ==
    /\ pc = "stopped"
    /\ shown = "no_data"
    /\ data = <<>>
    /\ \E k \in DOMAIN files : files[k].ok
    /\ \E k \in DOMAIN files : ~files[k].ok

DatedPairs ==
    {<<filtered_data[k].price_date_dt, filtered_data[k].scrape_time>> :
        k \in {j \in DOMAIN filtered_data : filtered_data[j].price_date_dt # NaT}}

AllPairs ==
    {<<filtered_data[k].price_date_dt, filtered_data[k].scrape_time>> :
        k \in DOMAIN filtered_data}

EntriesFor(series, p) ==
    {k \in DOMAIN series :
        series[k].price_date_dt = p[1] /\ series[k].scrape_time = p[2]}

EntryPairs(series) ==
    {<<series[k].price_date_dt, series[k].scrape_time>> : k \in DOMAIN series}

\* C8 as stated: when the run has drawn the charts, the RevPAR series and the
\* occupancy series hold exactly one entry for each (price_date, scrape_time)
\* pair that has a row in the filtered table, and none for any other pair.
C8_OneEntryPerPair ==
    (pc = "done" /\ shown = "charts") =>
        \A series \in {revpar_data, occupancy_data} :
            /\ \A p \in AllPairs : Cardinality(EntriesFor(series, p)) = 1
            /\ EntryPairs(series) \subseteq AllPairs

\* C8 amended: the RevPAR series and the occupancy series hold exactly one
\* entry for each (price_date, scrape_time) pair with a non-null price_date
\* that has a row in the filtered table, and none for any other pair; rows
\* whose price_date is null get no entry.  Rows of one date and different
\* scrape times are in different entries.
C8_OneEntryPerDatedPair ==
    (Rendered /\ shown = "charts") =>
        /\ Len(revpar_data) = Cardinality(DatedPairs)
        /\ Len(occupancy_data) = Cardinality(DatedPairs)
        /\ \A p \in DatedPairs :
              /\ Cardinality(EntriesFor(revpar_data, p)) = 1
              /\ Cardinality(EntriesFor(occupancy_data, p)) = 1

C8_Witness ==
    /\ Rendered /\ shown = "charts"
    /\ Len(filtered_data) = 2
    /\ filtered_data[1].price_date_dt = 60 /\ filtered_data[1].scrape_time = "Morning"
    /\ filtered_data[2].price_date_dt = 60 /\ filtered_data[2].scrape_time = "Evening"
    /\ filtered_data[1].price # filtered_data[2].price
    /\ Len(revpar_data) = 2 /\ Len(occupancy_data) = 2
    /\ revpar_data[1].revpar # revpar_data[2].revpar

\* C9: with an empty filtered table (the base table is not empty) the run does
\* not fail: the four KPIs are 0, no series entry is produced and the warning
\* for the selected filters is shown in place of the charts.
C9_EmptyFilteredTable ==
    (Measured /\ filtered_data = <<>>) =>
        /\ avg_review_score = 0 /\ adr = 0 /\ occupancy_rate = 0 /\ revpar = 0
        /\ pc # "failed"
        /\ price_by_date = {} /\ revpar_data = <<>> /\ occupancy_data = <<>>
        /\ weekday_data = {}
        /\ shown = IF pc = "done" THEN "warning" ELSE "nothing"

C9_Witness ==
    /\ pc = "done"
    /\ shown = "warning"
    /\ filtered_data = <<>>
    /\ data # <<>>
    /\ revpar = 0

\* C10: every row of the filtered table has a price; the occupancy KPI is 0 or
\* 100, and 100 whenever the filtered table has a hotel name; the RevPAR KPI
\* is 0 or the ADR.
C10_OccupancyAllOrNothing ==
    /\ Filtered => \A k \in DOMAIN filtered_data : filtered_data[k].price # NaN
    /\ Measured =>
          /\ occupancy_rate \in {0, 10000}
          /\ (\E k \in DOMAIN filtered_data : filtered_data[k].name # NoName)
                 => occupancy_rate = 10000
          /\ revpar \in {0, adr}

C10_Witness ==
    /\ Measured
    /\ filtered_data # <<>>
    /\ occupancy_rate = 10000
    /\ revpar = adr /\ adr = 250
    /\ \E k \in DOMAIN data : data[k].price = NaN

====
